---------------------------- MODULE Spec2Model ----------------------------
(***************************************************************************)
(* MCQ answer parsing and scoring (evaluate_mcq_json.py, and the           *)
(* evaluate_mcq of exact_mcq_comparison.py and mcq_comparison.py).         *)
(*                                                                         *)
(* A text is a sequence of one-character strings.  An AnswerMap (a Python  *)
(* dict, which iterates in insertion order) is a sequence of records       *)
(* [q |-> digit run, opt |-> letter] with pairwise distinct q.             *)
(***************************************************************************)
EXTENDS Integers, Sequences, FiniteSets, TLC

(***************************************************************************)
(* Bounds of the model.                                                    *)
(***************************************************************************)
\* longest text enumerated character by character for the parser
MaxLen == 5
\* most chunks concatenated into a model or student text for the scorer
MaxChunks == 2
\* most entries of an AnswerMap that is serialised and parsed back
MaxEntries == 2

(***************************************************************************)
(* Characters: the classes the regular expressions and str methods use.    *)
(***************************************************************************)
\* \d of the re module (ASCII part)
Digit == {"0", "1", "2", "3", "4", "5", "6", "7", "8", "9"}

\* \s of the re module and the characters str.strip() removes (ASCII part)
Whitespace == {" ", "\n", "\t", "\r", "\f"}

\* the character class [A-D]
OptionLetter == {"A", "B", "C", "D"}

UpperOf ==
    ("a" :> "A") @@ ("b" :> "B") @@ ("c" :> "C") @@ ("d" :> "D") @@
    ("e" :> "E") @@ ("h" :> "H") @@ ("l" :> "L") @@ ("o" :> "O") @@
    ("q" :> "Q") @@ ("r" :> "R") @@ ("w" :> "W") @@ ("x" :> "X")

LowerOf ==
    ("A" :> "a") @@ ("B" :> "b") @@ ("C" :> "c") @@ ("D" :> "d") @@
    ("E" :> "e") @@ ("H" :> "h") @@ ("L" :> "l") @@ ("O" :> "o") @@
    ("Q" :> "q") @@ ("R" :> "r") @@ ("W" :> "w") @@ ("X" :> "x")

\* str.upper() and str.lower(), character by character
upper(s) == [i \in 1..Len(s) |-> IF s[i] \in DOMAIN UpperOf THEN UpperOf[s[i]] ELSE s[i]]

lower(s) == [i \in 1..Len(s) |-> IF s[i] \in DOMAIN LowerOf THEN LowerOf[s[i]] ELSE s[i]]

RECURSIVE lstrip(_)
lstrip(s) ==
    IF s # <<>> /\ Head(s) \in Whitespace THEN lstrip(Tail(s)) ELSE s

RECURSIVE rstrip(_)
rstrip(s) ==
    IF s # <<>> /\ s[Len(s)] \in Whitespace
    THEN rstrip(SubSeq(s, 1, Len(s) - 1))
    ELSE s

\* str.strip()
strip(s) == rstrip(lstrip(s))

\* '\n' in text
HasNewline(s) == \E i \in 1..Len(s) : s[i] = "\n"

(***************************************************************************)
(* Regular expressions.  A match attempt at position i yields a record     *)
(* [ok, q, opt, end], end being the position after the match.  The engine  *)
(* is greedy and backtracks: a quantified class first takes the longest    *)
(* run and gives characters back one at a time while the rest fails.       *)
(***************************************************************************)
NoMatch == [ok |-> FALSE, q |-> <<>>, opt |-> "", end |-> 0]

\* position after the longest run of characters of class cls starting at i
RECURSIVE RunEnd(_, _, _)
RunEnd(s, i, cls) ==
    IF i <= Len(s) /\ s[i] \in cls THEN RunEnd(s, i + 1, cls) ELSE i

\* SpacesThenOption with the class [A-Z] for the letter
RECURSIVE SpacesThenAnyLetter(_, _, _, _)
SpacesThenAnyLetter(s, i, j, k) ==
    IF k <= j THEN NoMatch
    ELSE IF k <= Len(s) /\ s[k] \in DOMAIN LowerOf
         THEN [ok |-> TRUE, q |-> SubSeq(s, i, j - 1), opt |-> s[k], end |-> k + 1]
         ELSE SpacesThenAnyLetter(s, i, j, k - 1)

\* \s+([A-D]) with the whitespace ending before k, from the longest down
RECURSIVE SpacesThenOption(_, _, _, _)
SpacesThenOption(s, i, j, k) ==
    IF k <= j THEN NoMatch
    ELSE IF k <= Len(s) /\ s[k] \in OptionLetter
         THEN [ok |-> TRUE, q |-> SubSeq(s, i, j - 1), opt |-> s[k], end |-> k + 1]
         ELSE SpacesThenOption(s, i, j, k - 1)

\* SpaceSeparatedAt with the pattern (\d)\s+([A-D]): one digit, not a run
SpaceSeparatedSingleDigit(s, i, j) ==
    IF j <= i THEN NoMatch
    ELSE SpacesThenOption(s, i, i + 1, RunEnd(s, i + 1, Whitespace))

\* (\d+)\s+([A-D]) at position i, the digits ending before j, longest first
RECURSIVE SpaceSeparatedAt(_, _, _)
SpaceSeparatedAt(s, i, j) ==
    IF j <= i THEN NoMatch
    ELSE LET m == SpacesThenOption(s, i, j, RunEnd(s, j, Whitespace))
         IN  IF m.ok THEN m ELSE SpaceSeparatedAt(s, i, j - 1)

\* AdjacentAt with the pattern (\d+)\s*([A-D]): the letter may follow whitespace
RECURSIVE AdjacentAtAllowingSpace(_, _, _)
AdjacentAtAllowingSpace(s, i, j) ==
    IF j <= i THEN NoMatch
    ELSE LET k == RunEnd(s, j, Whitespace)
         IN  IF k <= Len(s) /\ s[k] \in OptionLetter
             THEN [ok |-> TRUE, q |-> SubSeq(s, i, j - 1), opt |-> s[k], end |-> k + 1]
             ELSE AdjacentAtAllowingSpace(s, i, j - 1)

\* (\d+)([A-D]) at position i, the digits ending before j, longest first
RECURSIVE AdjacentAt(_, _, _)
AdjacentAt(s, i, j) ==
    IF j <= i THEN NoMatch
    ELSE IF j <= Len(s) /\ s[j] \in OptionLetter
         THEN [ok |-> TRUE, q |-> SubSeq(s, i, j - 1), opt |-> s[j], end |-> j + 1]
         ELSE AdjacentAt(s, i, j - 1)

\* re.finditer(r'(\d+)\s+([A-D])', text): the non-overlapping matches from
\* position i on, left to right, as (group 1, group 2) records
RECURSIVE space_separated_matches(_, _)
space_separated_matches(s, i) ==
    IF i > Len(s) THEN <<>>
    ELSE LET m == SpaceSeparatedAt(s, i, RunEnd(s, i, Digit))
         IN  IF m.ok
             THEN <<[q |-> m.q, opt |-> m.opt]>> \o space_separated_matches(s, m.end)
             ELSE space_separated_matches(s, i + 1)

\* re.finditer(r'(\d+)([A-D])', text)
RECURSIVE adjacent_pairs_matches(_, _)
adjacent_pairs_matches(s, i) ==
    IF i > Len(s) THEN <<>>
    ELSE LET m == AdjacentAt(s, i, RunEnd(s, i, Digit))
         IN  IF m.ok
             THEN <<[q |-> m.q, opt |-> m.opt]>> \o adjacent_pairs_matches(s, m.end)
             ELSE adjacent_pairs_matches(s, i + 1)

\* position of the first character of class cls at or after i, 0 if none
RECURSIVE FirstOf(_, _, _)
FirstOf(s, i, cls) ==
    IF i > Len(s) THEN 0
    ELSE IF s[i] \in cls THEN i ELSE FirstOf(s, i + 1, cls)

\* re.search(r'(\d+)', trimmed): group 1 of the leftmost match, <<>> if none
q_no_match(trimmed) ==
    LET i == FirstOf(trimmed, 1, Digit)
    IN  IF i = 0 THEN <<>> ELSE SubSeq(trimmed, i, RunEnd(trimmed, i, Digit) - 1)

\* option_match searching only behind the digit run
option_after_digits(trimmed) ==
    LET d == FirstOf(trimmed, 1, Digit)
        i == IF d = 0 THEN 0 ELSE FirstOf(trimmed, RunEnd(trimmed, d, Digit), OptionLetter)
    IN  IF i = 0 THEN "" ELSE trimmed[i]

\* re.search(r'([A-D])', trimmed): group 1 of the leftmost match, "" if none
option_match(trimmed) ==
    LET i == FirstOf(trimmed, 1, OptionLetter)
    IN  IF i = 0 THEN "" ELSE trimmed[i]

(***************************************************************************)
(* Dictionaries.                                                           *)
(***************************************************************************)
Keys(d) == {d[i].q : i \in 1..Len(d)}

HasKey(d, q) == \E i \in 1..Len(d) : d[i].q = q

\* d[q], for a key of d
Get(d, q) == d[CHOOSE i \in 1..Len(d) : d[i].q = q].opt

\* SetItem as answers.setdefault(q_no, option): an old key keeps its value
SetItemKeepingFirst(d, q, opt) ==
    IF HasKey(d, q) THEN d ELSE Append(d, [q |-> q, opt |-> opt])

\* answers[q_no] = option: a new key goes last, an old key keeps its place
SetItem(d, q, opt) ==
    IF HasKey(d, q)
    THEN [i \in 1..Len(d) |-> IF d[i].q = q THEN [q |-> q, opt |-> opt] ELSE d[i]]
    ELSE Append(d, [q |-> q, opt |-> opt])

\* str(int(q)): the digits of q without leading zeros
RECURSIVE Decimal(_)
Decimal(q) == IF Len(q) > 1 /\ Head(q) = "0" THEN Decimal(Tail(q)) ELSE q

\* StoreMatches with the keys coerced to numbers
RECURSIVE StoreMatchesAsNumbers(_, _)
StoreMatchesAsNumbers(d, matches) ==
    IF matches = <<>> THEN d
    ELSE StoreMatchesAsNumbers(SetItem(d, Decimal(Head(matches).q), Head(matches).opt),
                               Tail(matches))

\* for match in matches: answers[match.group(1)] = match.group(2)
RECURSIVE StoreMatches(_, _)
StoreMatches(d, matches) ==
    IF matches = <<>> THEN d
    ELSE StoreMatches(SetItem(d, Head(matches).q, Head(matches).opt), Tail(matches))

\* text.split('\n')
RECURSIVE split(_)
split(s) ==
    LET i == FirstOf(s, 1, {"\n"})
    IN  IF i = 0 THEN <<s>>
        ELSE <<SubSeq(s, 1, i - 1)>> \o split(SubSeq(s, i + 1, Len(s)))

\* StoreLines storing whatever the two searches gave for a line
RECURSIVE StoreLinesUnguarded(_, _)
StoreLinesUnguarded(d, lines) ==
    IF lines = <<>> THEN d
    ELSE LET trimmed == strip(Head(lines))
         IN  IF trimmed # <<>>
             THEN StoreLinesUnguarded(SetItem(d, q_no_match(trimmed), option_match(trimmed)),
                                      Tail(lines))
             ELSE StoreLinesUnguarded(d, Tail(lines))

\* the loop over the lines of the newline-separated format
RECURSIVE StoreLines(_, _)
StoreLines(d, lines) ==
    IF lines = <<>> THEN d
    ELSE LET trimmed == strip(Head(lines))
             q_no    == q_no_match(trimmed)
             option  == option_match(trimmed)
         IN  IF trimmed # <<>> /\ q_no # <<>> /\ option # ""
             THEN StoreLines(SetItem(d, q_no, option), Tail(lines))
             ELSE StoreLines(d, Tail(lines))

\* parse_answer_text trying the adjacent pairs before the space-separated ones
parse_adjacent_first(answer_text) ==
    IF answer_text = <<>> THEN <<>>
    ELSE LET text == upper(strip(answer_text))
             paired == StoreMatches(<<>>, adjacent_pairs_matches(text, 1))
             spaced == IF paired = <<>>
                       THEN StoreMatches(paired, space_separated_matches(text, 1))
                       ELSE paired
         IN  IF spaced = <<>> /\ HasNewline(text)
             THEN StoreLines(spaced, split(text))
             ELSE spaced

\* parse_answer_text without the conversion to uppercase
parse_case_sensitive(answer_text) ==
    IF answer_text = <<>> THEN <<>>
    ELSE LET text == strip(answer_text)
             spaced == StoreMatches(<<>>, space_separated_matches(text, 1))
             paired == IF spaced = <<>>
                       THEN StoreMatches(spaced, adjacent_pairs_matches(text, 1))
                       ELSE spaced
         IN  IF paired = <<>> /\ HasNewline(text)
             THEN StoreLines(paired, split(text))
             ELSE paired

(***************************************************************************)
(* parse_answer_text                                                       *)
(***************************************************************************)
parse_answer_text(answer_text) ==
    IF answer_text = <<>> THEN <<>>
    ELSE LET text == upper(strip(answer_text))
             spaced == StoreMatches(<<>>, space_separated_matches(text, 1))
             paired == IF spaced = <<>>
                       THEN StoreMatches(spaced, adjacent_pairs_matches(text, 1))
                       ELSE spaced
         IN  IF paired = <<>> /\ HasNewline(text)
             THEN StoreLines(paired, split(text))
             ELSE paired


(***************************************************************************)
(* evaluate_mcq                                                            *)
(***************************************************************************)
\* the value dict.get returns for a missing key
None == "None"

\* student_answers.get(q_no)
get(d, q) == IF HasKey(d, q) THEN Get(d, q) ELSE None

\* results[q_no] = record
SetResult(results, rec) ==
    IF \E i \in 1..Len(results) : results[i].q = rec.q
    THEN [i \in 1..Len(results) |-> IF results[i].q = rec.q THEN rec ELSE results[i]]
    ELSE Append(results, rec)

\* QuestionResult marking every answered question correct
QuestionResultAnyAnswer(q_no, correct_option, student_option) ==
    [q |-> q_no, correctOption |-> correct_option,
     studentOption |-> student_option, isCorrect |-> student_option # None]

\* the record stored for one question of the model answers
QuestionResult(q_no, correct_option, student_option) ==
    IF student_option = correct_option
    THEN [q |-> q_no, correctOption |-> correct_option,
          studentOption |-> student_option, isCorrect |-> TRUE]
    ELSE [q |-> q_no, correctOption |-> correct_option,
          studentOption |-> IF student_option # None /\ student_option # ""
                            THEN student_option ELSE None,
          isCorrect |-> FALSE]

\* CompareAnswers leaving the loop one item early
RECURSIVE CompareAnswersSkippingLast(_, _, _, _)
CompareAnswersSkippingLast(model_answers, student_answers, i, acc) ==
    IF i >= Len(model_answers) THEN acc
    ELSE LET rec == QuestionResult(model_answers[i].q, model_answers[i].opt,
                                   get(student_answers, model_answers[i].q))
         IN  CompareAnswersSkippingLast(model_answers, student_answers, i + 1,
                 [score   |-> IF rec.isCorrect THEN acc.score + 1 ELSE acc.score,
                  results |-> SetResult(acc.results, rec)])

\* for q_no, correct_option in model_answers.items(): the loop from item i on
RECURSIVE CompareAnswers(_, _, _, _)
CompareAnswers(model_answers, student_answers, i, acc) ==
    IF i > Len(model_answers) THEN acc
    ELSE LET rec == QuestionResult(model_answers[i].q, model_answers[i].opt,
                                   get(student_answers, model_answers[i].q))
         IN  CompareAnswers(model_answers, student_answers, i + 1,
                 [score   |-> IF rec.isCorrect THEN acc.score + 1 ELSE acc.score,
                  results |-> SetResult(acc.results, rec)])

(***************************************************************************)
(* Floating point.  A Python float is an IEEE 754 binary64: a significand  *)
(* of 53 bits and an exponent.  A positive double is [sig, exp] with sig    *)
(* the significand as its leading bit and four digits of 13 bits, and its   *)
(* value sig[1].sig[2]sig[3]sig[4]sig[5] * 2^exp; every operation returns   *)
(* the double nearest to the exact result, a tie going to the even          *)
(* significand.                                                            *)
(***************************************************************************)
\* 2^13, the radix of the digits of a significand
Radix == 8192

\* 0.0
Zero == [sig |-> <<0, 0, 0, 0, 0>>, exp |-> 0]

RECURSIVE Pow2(_)
Pow2(n) == IF n <= 0 THEN 1 ELSE 2 * Pow2(n - 1)

\* the number of bits of n after its leading one
RECURSIVE Log2(_)
Log2(n) == IF n < 2 THEN 0 ELSE 1 + Log2(n \div 2)

\* the carries of digits i, i - 1, ..., 2 taken into the digit before each
RECURSIVE Propagate(_, _)
Propagate(d, i) ==
    IF i = 1 THEN d
    ELSE Propagate([d EXCEPT ![i] = d[i] % Radix, ![i - 1] = d[i - 1] + d[i] \div Radix],
                   i - 1)

\* the digits d moved c bits to the right
ShiftRight(d, c) ==
    [i \in 1..5 |->
        (IF i = 1 THEN 0 ELSE (d[i - 1] % Pow2(c)) * (Radix \div Pow2(c)))
            + d[i] \div Pow2(c)]

\* the least k with s * 2^k >= t
RECURSIVE Lead(_, _)
Lead(s, t) == IF s >= t THEN 0 ELSE 1 + Lead(2 * s, t)

\* score / total for integers 0 <= s <= t, 0 < t: the quotient by long
\* division, 53 bits of it kept and the rest rounded
truediv(s, t) ==
    IF s = 0 THEN Zero
    ELSE LET k  == Lead(s, t)
             r0 == s * Pow2(k) - t
             d1 == (r0 * Radix) \div t
             r1 == (r0 * Radix) % t
             d2 == (r1 * Radix) \div t
             r2 == (r1 * Radix) % t
             d3 == (r2 * Radix) \div t
             r3 == (r2 * Radix) % t
             d4 == (r3 * Radix) \div t
             r4 == (r3 * Radix) % t
             guard  == (2 * r4) \div t
             sticky == (2 * r4) % t
             up  == guard = 1 /\ (sticky > 0 \/ d4 % 2 = 1)
             sig == Propagate(<<1, d1, d2, d3, d4 + (IF up THEN 1 ELSE 0)>>, 5)
         IN  IF sig[1] = 2
             THEN [sig |-> <<1, 0, 0, 0, 0>>, exp |-> 1 - k]
             ELSE [sig |-> sig, exp |-> 0 - k]

\* x * n for a double x >= 0 and an integer 0 < n < 4096 (which is a double):
\* the exact product, 53 bits of it kept and the rest rounded
mul(x, n) ==
    IF x.sig[1] = 0 THEN Zero
    ELSE LET p   == Propagate([i \in 1..5 |-> x.sig[i] * n], 5)
             b   == Log2(p[1])
             low == p[5] % Pow2(b)
             up  == \/ 2 * low > Pow2(b)
                    \/ (2 * low = Pow2(b) /\ (p[5] \div Pow2(b)) % 2 = 1)
             q   == Propagate([p EXCEPT ![5] = p[5] - low + (IF up THEN Pow2(b) ELSE 0)], 5)
             c   == Log2(q[1])
         IN  [sig |-> ShiftRight(q, c), exp |-> x.exp + c]

\* round(x) of Python 3 for a double 0 <= x < 4096: the nearest integer, a
\* tie going to the even one
round(x) ==
    IF x.sig[1] = 0 \/ x.exp < -1 THEN 0
    ELSE IF x.exp = -1 THEN (IF x.sig = <<1, 0, 0, 0, 0>> THEN 0 ELSE 1)
    ELSE LET n    == Pow2(x.exp) + x.sig[2] \div Pow2(13 - x.exp)
             f    == x.sig[2] % Pow2(13 - x.exp)
             h    == Pow2(12 - x.exp)
             more == x.sig[3] + x.sig[4] + x.sig[5] > 0
         IN  IF f > h \/ (f = h /\ more) THEN n + 1
             ELSE IF f < h THEN n
             ELSE IF n % 2 = 0 THEN n ELSE n + 1

\* round((score / total) * 100) if total > 0 else 0
percentage(score, total) == IF total > 0 THEN round(mul(truediv(score, total), 100)) ELSE 0

\* Evaluate looping over the student's answers after the model's, so that a
\* question only the student answered is reported too
EvaluateReportingAll(model_answers, student_answers) ==
    LET total == Len(model_answers)
        done  == CompareAnswers(model_answers, student_answers, 1,
                                [score |-> 0, results |-> <<>>])
        extra == SelectSeq(student_answers, LAMBDA e : ~HasKey(model_answers, e.q))
        more  == [i \in 1..Len(extra) |->
                     [q |-> extra[i].q, correctOption |-> None,
                      studentOption |-> extra[i].opt, isCorrect |-> FALSE]]
    IN  [score |-> done.score, total |-> total, results |-> done.results \o more,
         percentage |-> percentage(done.score, total)]

\* Evaluate taking for total every question answered by either side
EvaluateTotalOfAnswered(model_answers, student_answers) ==
    LET total == Cardinality(Keys(model_answers) \cup Keys(student_answers))
        done  == CompareAnswers(model_answers, student_answers, 1,
                                [score |-> 0, results |-> <<>>])
    IN  [score |-> done.score, total |-> total, results |-> done.results,
         percentage |-> percentage(done.score, total)]

\* the comparison of two parsed maps (the body of evaluate_mcq after parsing)
Evaluate(model_answers, student_answers) ==
    LET total == Len(model_answers)
        done  == CompareAnswers(model_answers, student_answers, 1,
                                [score |-> 0, results |-> <<>>])
    IN  [score |-> done.score, total |-> total, results |-> done.results,
         percentage |-> percentage(done.score, total)]

evaluate_mcq(model_answer_text, student_answer_text) ==
    Evaluate(parse_answer_text(model_answer_text),
             parse_answer_text(student_answer_text))

(***************************************************************************)
(* format_results: the report, as its question lines, its score line and   *)
(* its performance label.                                                  *)
(***************************************************************************)
\* performance_label with bands exclusive at their lower bound
performance_label_exclusive(pct) ==
    IF pct > 90 THEN "Excellent"
    ELSE IF pct > 70 THEN "Good"
    ELSE IF pct > 50 THEN "Average"
    ELSE "Poor"

performance_label(pct) ==
    IF pct >= 90 THEN "Excellent"
    ELSE IF pct >= 70 THEN "Good"
    ELSE IF pct >= 50 THEN "Average"
    ELSE "Poor"

QuestionLine(result) ==
    [q       |-> result.q,
     status  |-> IF result.isCorrect THEN "tick" ELSE "cross",
     model   |-> result.correctOption,
     student |-> IF result.studentOption # None /\ result.studentOption # ""
                 THEN result.studentOption ELSE "No answer"]

\* the report of format_results, as its question lines, its score line and
\* its performance label
Report(evaluation_result) ==
    [questions  |-> [i \in 1..Len(evaluation_result.results) |->
                        QuestionLine(evaluation_result.results[i])],
     score      |-> evaluation_result.score,
     total      |-> evaluation_result.total,
     percentage |-> evaluation_result.percentage,
     label      |-> performance_label(evaluation_result.percentage)]

\* format_results writing the placeholder into the records it reports
format_results_storing_placeholder(evaluation_result) ==
    [output |-> Report(evaluation_result),
     evaluation_result |->
        [evaluation_result EXCEPT !.results =
            [i \in 1..Len(evaluation_result.results) |->
                [evaluation_result.results[i] EXCEPT !.studentOption =
                    IF @ = None THEN "No answer" ELSE @]]]]

\* format_results(evaluation_result): the string returned, and the dict
\* passed as the call leaves it (the function reads it and stores nothing)
format_results(evaluation_result) ==
    [output |-> Report(evaluation_result),
     evaluation_result |-> evaluation_result]

(***************************************************************************)
(* exact_mcq_comparison.py and mcq_comparison.py.  Their maps hold tokens  *)
(* of any length: an entry is [q |-> text, opt |-> text].                  *)
(***************************************************************************)
\* answer_text.replace('\n', ' ')
replace(s) == [i \in 1..Len(s) |-> IF s[i] = "\n" THEN " " ELSE s[i]]

\* position of the first character outside class cls at or after i, and
\* Len(s) + 1 if none
RECURSIVE TokenEnd(_, _, _)
TokenEnd(s, i, cls) ==
    IF i <= Len(s) /\ s[i] \notin cls THEN TokenEnd(s, i + 1, cls) ELSE i

\* text.split(): the maximal runs of characters that are not whitespace
RECURSIVE split_whitespace(_)
split_whitespace(s) ==
    LET i == RunEnd(s, 1, Whitespace)
        j == TokenEnd(s, i, Whitespace)
    IN  IF i > Len(s) THEN <<>>
        ELSE <<SubSeq(s, i, j - 1)>> \o split_whitespace(SubSeq(s, j, Len(s)))

\* the matches of a pattern with group 2 as a text
AsTokens(matches) ==
    [i \in 1..Len(matches) |-> [q |-> matches[i].q, opt |-> <<matches[i].opt>>]]

\* q_no.isdigit()
isdigit(q_no) == q_no # <<>> /\ \A p \in 1..Len(q_no) : q_no[p] \in Digit

\* option in ['A', 'B', 'C', 'D']
IsOption(option) == Len(option) = 1 /\ option[1] \in OptionLetter

\* exact_mcq_comparison: for i in range(0, len(parts), 2), from parts[i] on
RECURSIVE StoreParts(_, _)
StoreParts(d, parts) ==
    IF Len(parts) < 2 THEN d
    ELSE StoreParts(SetItem(d, parts[1], parts[2]), SubSeq(parts, 3, Len(parts)))

\* StoreParts with the checks mcq_comparison makes
RECURSIVE StoreValidParts(_, _)
StoreValidParts(d, parts) ==
    IF Len(parts) < 2 THEN d
    ELSE IF isdigit(parts[1]) /\ IsOption(parts[2])
         THEN StoreValidParts(SetItem(d, parts[1], parts[2]), SubSeq(parts, 3, Len(parts)))
         ELSE StoreValidParts(d, SubSeq(parts, 3, Len(parts)))

\* parse_answer_text of exact_mcq_comparison
exact_parse_answer_text(answer_text) ==
    IF answer_text = <<>> THEN <<>>
    ELSE LET paired == StoreMatches(<<>>,
                           AsTokens(adjacent_pairs_matches(upper(answer_text), 1)))
         IN  IF paired = <<>>
             THEN StoreParts(paired, split_whitespace(upper(strip(replace(answer_text)))))
             ELSE paired

\* re.match(r'^(\d+)\s*([A-D])$', trimmed)
line_match(trimmed) ==
    LET j == RunEnd(trimmed, 1, Digit)
        k == RunEnd(trimmed, j, Whitespace)
    IN  IF j > 1 /\ k = Len(trimmed) /\ trimmed[k] \in OptionLetter
        THEN [ok |-> TRUE, q |-> SubSeq(trimmed, 1, j - 1), opt |-> trimmed[k], end |-> k + 1]
        ELSE NoMatch

\* mcq_comparison: the loop over the lines
RECURSIVE ComparisonStoreLines(_, _)
ComparisonStoreLines(d, lines) ==
    IF lines = <<>> THEN d
    ELSE LET trimmed == upper(strip(Head(lines)))
             match   == line_match(trimmed)
             q_no    == q_no_match(trimmed)
             option  == option_match(trimmed)
         IN  IF trimmed = <<>> THEN ComparisonStoreLines(d, Tail(lines))
             ELSE IF match.ok
             THEN ComparisonStoreLines(SetItem(d, match.q, <<match.opt>>), Tail(lines))
             ELSE IF q_no # <<>> /\ option # ""
             THEN ComparisonStoreLines(SetItem(d, q_no, <<option>>), Tail(lines))
             ELSE ComparisonStoreLines(d, Tail(lines))

\* parse_answer_text of mcq_comparison
comparison_parse_answer_text(answer_text) ==
    IF answer_text = <<>> THEN <<>>
    ELSE LET by_lines == IF HasNewline(answer_text)
                         THEN ComparisonStoreLines(<<>>, split(answer_text))
                         ELSE <<>>
         IN  IF by_lines = <<>>
             THEN StoreValidParts(by_lines,
                                  split_whitespace(upper(strip(replace(answer_text)))))
             ELSE by_lines

\* the loop of evaluate_mcq in both files: score counts the keys of the model
\* answers for which student_answers.get(q_no) == correct_option
CountCorrect(model_answers, student_answers) ==
    Cardinality({i \in 1..Len(model_answers) :
                    /\ HasKey(student_answers, model_answers[i].q)
                    /\ Get(student_answers, model_answers[i].q) = model_answers[i].opt})

\* the (score, total) both evaluate_mcq return for two parsed maps
ScoreTotal(model_answers, student_answers) ==
    [score |-> CountCorrect(model_answers, student_answers),
     total |-> Len(model_answers)]

(***************************************************************************)
(* Inputs.                                                                 *)
(***************************************************************************)
\* the characters of the texts enumerated for the parser
Sigma == {"0", "1", "A", "b", "x", " ", "\n"}

TextsUpTo(n) == UNION {[1..k -> Sigma] : k \in 0..n}

\* the texts of the specification's scenarios
ModelExample   == <<"1", "A", " ", "2", "B", " ", "3", "C", " ", "4", "D">>
StudentExample == <<"1", " ", "a", " ", "2", " ", "b", " ", "3", " ", "c", " ", "4", " ", "d">>
StudentWithX   == <<"1", " ", "a", " ", "2", " ", "x", " ", "3", " ", "c", " ", "4", " ", "d">>
HelloWorld     == <<"h", "e", "l", "l", "o", " ", "w", "o", "r", "l", "d">>
LineExample    == <<"Q", "1", ":", " ", "a", "\n", "Q", "2", ":", " ", "b">>
LowerPairs     == <<"1", "a", " ", "2", "b">>
AdjacentExample == <<"1", "A", "2", "B", "3", "C", "4", "D">>
RepeatedKey    == <<"1", "A", " ", "2", "B", " ", "1", "C">>
LeadingZero    == <<"0", "1", " ", "A">>
RejectedOnly   == <<"2", " ", "x">>
RejectedLast   == <<"1", " ", "A", " ", "2", " ", "x">>
RejectedFirst  == <<"2", "x", " ", "3", "c">>

Examples ==
    {ModelExample, StudentExample, StudentWithX, HelloWorld, LineExample,
     LowerPairs, AdjacentExample, RepeatedKey, LeadingZero, RejectedOnly,
     RejectedLast, RejectedFirst}

\* the pieces model and student texts are assembled from
Chunks ==
    {<<"1", " ", "A", " ">>, <<"1", " ", "b", " ">>, <<"2", " ", "B", " ">>,
     <<"2", "a">>, <<"3", "c">>, <<"x", "\n">>}

RECURSIVE ChunkTexts(_)
ChunkTexts(n) ==
    IF n = 0 THEN {<<>>}
    ELSE LET shorter == ChunkTexts(n - 1)
         IN  shorter \cup {t \o c : t \in shorter, c \in Chunks}

ScorerTexts == ChunkTexts(MaxChunks) \cup Examples

\* most questions of an answer sheet
MaxQuestions == 40

\* str(n) for n >= 0
RECURSIVE str(_)
str(n) ==
    LET digit == <<"0", "1", "2", "3", "4", "5", "6", "7", "8", "9">>[(n % 10) + 1]
    IN  IF n < 10 THEN <<digit>> ELSE str(n \div 10) \o <<digit>>

\* the option of question n on the model's sheet
OptionOf(n) == <<"A", "B", "C", "D">>[(n % 4) + 1]

\* the model's answers to questions 1..total
ModelSheet(total) == [n \in 1..total |-> [q |-> str(n), opt |-> OptionOf(n)]]

\* a student's answers: the first `right` questions as the model has them,
\* the others with another option when answered, or left out
StudentSheet(total, right, answered) ==
    [n \in 1..(IF answered THEN total ELSE right) |->
        [q |-> str(n), opt |-> IF n <= right THEN OptionOf(n) ELSE OptionOf(n + 1)]]

\* most pairs of a text of alternating tokens
MaxPairs == 2

\* the texts "{q} {letter} " repeated, of up to n pairs, any pair at any place
RECURSIVE TokenTexts(_, _)
TokenTexts(n, letters) ==
    IF n = 0 THEN {<<>>}
    ELSE LET shorter == TokenTexts(n - 1, letters)
         IN  shorter \cup
             {t \o q \o <<" ", l, " ">> :
                 t \in shorter, q \in {<<"1">>, <<"2">>, <<"0", "1">>}, l \in letters}

\* the QuestionIds and AnswerMaps serialised for the round trip
QuestionIds == {<<"1">>, <<"2">>, <<"0", "1">>, <<"1", "0">>, <<"1", "2">>}

AnswerMaps ==
    {m \in UNION {[1..k -> [q : QuestionIds, opt : OptionLetter]] : k \in 0..MaxEntries} :
        \A i, j \in 1..Len(m) : m[i].q = m[j].q => i = j}

\* the concatenation of "{q} {opt} " over the entries of m, in order
RECURSIVE Serialise(_)
Serialise(m) ==
    IF m = <<>> THEN <<>>
    ELSE Head(m).q \o <<" ", Head(m).opt, " ">> \o Serialise(Tail(m))

(***************************************************************************)
(* State.                                                                  *)
(***************************************************************************)
VARIABLES
    pc,                  \* "call" before the entry point runs, then "return" or "raise"
    entry,               \* the function called
    answer_text,         \* argument of parse_answer_text
    source,              \* the AnswerMap answer_text was serialised from, if any
    answers,             \* value parse_answer_text returned
    json_input,          \* the keys model_answers and student_answers, each given or not
    model_answers,       \* the map evaluate_mcq parsed from the model text
    student_answers,     \* the map evaluate_mcq parsed from the student text
    evaluation_result,   \* value evaluate_mcq returned
    formattedOutput,     \* evaluation_result['formattedOutput'], once added
    exact_model_answers,    \* the maps evaluate_mcq of exact_mcq_comparison parsed
    exact_student_answers,
    exact_result,        \* (score, total) evaluate_mcq of exact_mcq_comparison returned
    comparison_result    \* (score, total) evaluate_mcq of mcq_comparison returned

vars == <<pc, entry, answer_text, source, answers, json_input, model_answers,
          student_answers, evaluation_result, formattedOutput, exact_model_answers,
          exact_student_answers, exact_result, comparison_result>>

\* the variables of the calls of the two other implementations
others == <<exact_model_answers, exact_student_answers, exact_result, comparison_result>>

NoSource == [given |-> FALSE, map |-> <<>>]
NoInput  == [has_model |-> FALSE, model_answers |-> <<>>,
             has_student |-> FALSE, student_answers |-> <<>>]
NoResult == [score |-> -1, total |-> -1, results |-> <<>>, percentage |-> -1]
NoOutput == [questions |-> <<>>, score |-> -1, total |-> -1, percentage |-> -1,
             label |-> ""]
NoScore  == [score |-> -1, total |-> -1]

\* no call of the two other implementations made
OthersNotCalled ==
    /\ exact_model_answers = <<>>
    /\ exact_student_answers = <<>>
    /\ exact_result = NoScore
    /\ comparison_result = NoScore

\* json_input.get(key): the text, or nothing when the key is missing; a missing
\* key and the empty text are both falsy
model_answer_text   == IF json_input.has_model THEN json_input.model_answers ELSE <<>>
student_answer_text == IF json_input.has_student THEN json_input.student_answers ELSE <<>>

(***************************************************************************)
(* The parser called on one text.                                          *)
(***************************************************************************)
ParserInit ==
    /\ pc = "call"
    /\ entry = "parse_answer_text"
    /\ \/ /\ answer_text \in TextsUpTo(MaxLen) \cup Examples
          /\ source = NoSource
       \/ \E m \in AnswerMaps :
            /\ source = [given |-> TRUE, map |-> m]
            /\ answer_text = Serialise(m)
    /\ answers = <<>>
    /\ json_input = NoInput
    /\ model_answers = <<>>
    /\ student_answers = <<>>
    /\ evaluation_result = NoResult
    /\ formattedOutput = NoOutput
    /\ OthersNotCalled

ParseAnswerText ==
    /\ pc = "call"
    /\ entry = "parse_answer_text"
    /\ answers' = parse_answer_text(answer_text)
    /\ pc' = "return"
    /\ UNCHANGED <<entry, answer_text, source, json_input, model_answers,
                   student_answers, evaluation_result, formattedOutput, others>>

ParserNext == ParseAnswerText

ParserSpec == ParserInit /\ [][ParserNext]_vars

(***************************************************************************)
(* The scorer called on two texts, through either entry point.             *)
(***************************************************************************)
Init ==
    /\ pc = "call"
    /\ entry \in {"evaluate_mcq", "process_json_input"}
    /\ \E m, s \in ScorerTexts, hm, hs \in BOOLEAN :
         /\ (~hm => m = <<>>)
         /\ (~hs => s = <<>>)
         /\ json_input = [has_model |-> hm, model_answers |-> m,
                          has_student |-> hs, student_answers |-> s]
    /\ answer_text = <<>>
    /\ source = NoSource
    /\ answers = <<>>
    /\ model_answers = <<>>
    /\ student_answers = <<>>
    /\ evaluation_result = NoResult
    /\ formattedOutput = NoOutput
    /\ OthersNotCalled

\* evaluate_mcq(model_answer_text, student_answer_text) called directly
EvaluateMcq ==
    /\ pc = "call"
    /\ entry = "evaluate_mcq"
    /\ model_answers' = parse_answer_text(model_answer_text)
    /\ student_answers' = parse_answer_text(student_answer_text)
    /\ evaluation_result' = Evaluate(model_answers', student_answers')
    /\ pc' = "return"
    /\ UNCHANGED <<entry, answer_text, source, answers, json_input, formattedOutput,
                   others>>

\* ProcessJsonInput validating the parsed maps instead of the raw texts
ProcessJsonInputRejectingEmptyMaps ==
    /\ pc = "call"
    /\ entry = "process_json_input"
    /\ IF parse_answer_text(model_answer_text) = <<>> \/ parse_answer_text(student_answer_text) = <<>>
       THEN /\ pc' = "raise"
            /\ UNCHANGED <<model_answers, student_answers, evaluation_result,
                           formattedOutput>>
       ELSE /\ model_answers' = parse_answer_text(model_answer_text)
            /\ student_answers' = parse_answer_text(student_answer_text)
            /\ LET formatted == format_results(Evaluate(model_answers', student_answers'))
               IN  /\ evaluation_result' = formatted.evaluation_result
                   /\ formattedOutput' = formatted.output
            /\ pc' = "return"
    /\ UNCHANGED <<entry, answer_text, source, answers, json_input, others>>

\* process_json_input(json_input)
ProcessJsonInput ==
    /\ pc = "call"
    /\ entry = "process_json_input"
    /\ IF model_answer_text = <<>> \/ student_answer_text = <<>>
       THEN /\ pc' = "raise"
            /\ UNCHANGED <<model_answers, student_answers, evaluation_result,
                           formattedOutput>>
       ELSE /\ model_answers' = parse_answer_text(model_answer_text)
            /\ student_answers' = parse_answer_text(student_answer_text)
            /\ LET formatted == format_results(Evaluate(model_answers', student_answers'))
               IN  /\ evaluation_result' = formatted.evaluation_result
                   /\ formattedOutput' = formatted.output
            /\ pc' = "return"
    /\ UNCHANGED <<entry, answer_text, source, answers, json_input, others>>

Next == EvaluateMcq \/ ProcessJsonInput

Spec == Init /\ [][Next]_vars

(***************************************************************************)
(* The scorer called on answer sheets of up to MaxQuestions questions.     *)
(***************************************************************************)
SheetInit ==
    /\ pc = "call"
    /\ entry \in {"evaluate_mcq", "process_json_input"}
    /\ \E total \in 0..MaxQuestions : \E right \in 0..total : \E answered \in BOOLEAN :
         json_input =
            [has_model |-> TRUE,
             model_answers |-> IF total = 0 THEN HelloWorld
                               ELSE Serialise(ModelSheet(total)),
             has_student |-> TRUE,
             student_answers |-> Serialise(StudentSheet(total, right, answered))]
    /\ answer_text = <<>>
    /\ source = NoSource
    /\ answers = <<>>
    /\ model_answers = <<>>
    /\ student_answers = <<>>
    /\ evaluation_result = NoResult
    /\ formattedOutput = NoOutput
    /\ OthersNotCalled

SheetSpec == SheetInit /\ [][Next]_vars

(***************************************************************************)
(* The three evaluate_mcq called on the same two texts.                    *)
(***************************************************************************)
CompareInit ==
    /\ pc = "call"
    /\ entry = "evaluate_mcq"
    /\ \/ \E m \in TokenTexts(MaxPairs, {"A", "b"}) :
          \E s \in TokenTexts(MaxPairs, {"A", "b", "x"}) :
             json_input = [has_model |-> TRUE, model_answers |-> m,
                           has_student |-> TRUE, student_answers |-> s]
       \/ \E m \in TextsUpTo(MaxLen) \cup Examples :
             json_input = [has_model |-> TRUE, model_answers |-> m,
                           has_student |-> TRUE, student_answers |-> AdjacentExample]
    /\ answer_text = <<>>
    /\ source = NoSource
    /\ answers = <<>>
    /\ model_answers = <<>>
    /\ student_answers = <<>>
    /\ evaluation_result = NoResult
    /\ formattedOutput = NoOutput
    /\ OthersNotCalled

\* evaluate_mcq(model_answer_text, student_answer_text) of exact_mcq_comparison
ExactEvaluateMcq ==
    /\ exact_result = NoScore
    /\ exact_model_answers' = exact_parse_answer_text(model_answer_text)
    /\ exact_student_answers' = exact_parse_answer_text(student_answer_text)
    /\ exact_result' = ScoreTotal(exact_model_answers', exact_student_answers')
    /\ UNCHANGED <<pc, entry, answer_text, source, answers, json_input, model_answers,
                   student_answers, evaluation_result, formattedOutput, comparison_result>>

\* evaluate_mcq(model_answer_text, student_answer_text) of mcq_comparison
ComparisonEvaluateMcq ==
    /\ comparison_result = NoScore
    /\ comparison_result' =
          ScoreTotal(comparison_parse_answer_text(model_answer_text),
                     comparison_parse_answer_text(student_answer_text))
    /\ UNCHANGED <<pc, entry, answer_text, source, answers, json_input, model_answers,
                   student_answers, evaluation_result, formattedOutput,
                   exact_model_answers, exact_student_answers, exact_result>>

CompareNext == EvaluateMcq \/ ExactEvaluateMcq \/ ComparisonEvaluateMcq

CompareSpec == CompareInit /\ [][CompareNext]_vars


(***************************************************************************)
(* Properties of the parser (ParserSpec).                                  *)
(***************************************************************************)
\* the text the patterns are matched against
Uppercased == upper(answer_text)

\* s holds a digit run, then whitespace, then one letter of A-D
ContainsSpacePair(s) ==
    \E i, j, k \in 1..Len(s) :
        /\ i < j /\ j < k
        /\ \A p \in i..(j - 1) : s[p] \in Digit
        /\ \A p \in j..(k - 1) : s[p] \in Whitespace
        /\ s[k] \in OptionLetter

\* s holds a digit immediately followed by one letter of A-D
ContainsAdjacentPair(s) ==
    \E i \in 1..(Len(s) - 1) : s[i] \in Digit /\ s[i + 1] \in OptionLetter

SpacePairs    == space_separated_matches(Uppercased, 1)
AdjacentPairs == adjacent_pairs_matches(Uppercased, 1)

\* the entries of sequence d, as a set
Entries(d) == {d[i] : i \in 1..Len(d)}

\* C1: the three shapes are tried in a fixed priority order.  When the
\* uppercased text holds a space-separated pair, the map parse_answer_text
\* returns is made of the space-separated pairs alone (adjacent pairs found
\* elsewhere add nothing); when it holds none but holds an adjacent pair, the
\* map is made of the adjacent pairs alone; the lines are looked at only when
\* the text holds neither.
C1_PriorityOrder ==
    pc = "return" =>
        /\ ContainsSpacePair(Uppercased) <=> SpacePairs # <<>>
        /\ ContainsAdjacentPair(Uppercased) <=> AdjacentPairs # <<>>
        /\ ContainsSpacePair(Uppercased) =>
              /\ answers = StoreMatches(<<>>, SpacePairs)
              /\ Entries(answers) \subseteq Entries(SpacePairs)
        /\ (~ContainsSpacePair(Uppercased) /\ ContainsAdjacentPair(Uppercased)) =>
              /\ answers = StoreMatches(<<>>, AdjacentPairs)
              /\ Entries(answers) \subseteq Entries(AdjacentPairs)
        /\ (ContainsSpacePair(Uppercased) \/ ContainsAdjacentPair(Uppercased)) =>
              answers # <<>>

\* a text with a space-separated pair, an adjacent pair of another question
\* that is left out of the map, and a newline
C1_Witness ==
    /\ pc = "return"
    /\ SpacePairs # <<>>
    /\ HasNewline(answer_text)
    /\ \E i \in 1..Len(AdjacentPairs) : ~HasKey(answers, AdjacentPairs[i].q)

\* C8: an AnswerMap written as "{q} {opt} " per entry, in order, parses back
\* to the same map: same keys, same options, same order.
C8_RoundTrip ==
    (pc = "return" /\ source.given) => answers = source.map

\* a map of two entries, one key of two digits, serialised and parsed
C8_Witness ==
    /\ pc = "return"
    /\ source.given
    /\ Len(source.map) >= 2
    /\ \E i \in 1..Len(source.map) : Len(source.map[i].q) >= 2
    /\ answer_text = Serialise(source.map)

\* C9: parsing does not depend on letter case.  The text, its lowercased
\* form and its uppercased form parse to the same map, the options of which
\* are uppercase; "1a 2b" gives {"1": "A", "2": "B"}; and a student text that
\* differs from the model text in letter case only scores score = total.
C9_CaseInsensitive ==
    pc = "return" =>
        /\ answers = parse_answer_text(lower(answer_text))
        /\ answers = parse_answer_text(upper(answer_text))
        /\ \A i \in 1..Len(answers) : answers[i].opt \in OptionLetter
        /\ answer_text = LowerPairs =>
              answers = <<[q |-> <<"1">>, opt |-> "A"], [q |-> <<"2">>, opt |-> "B"]>>
        /\ \A student \in {lower(answer_text), upper(answer_text)} :
              LET r == evaluate_mcq(answer_text, student)
                  b == evaluate_mcq(student, answer_text)
              IN  /\ r.score = r.total /\ r.total = Len(answers)
                  /\ b.score = b.total /\ b.total = Len(answers)

\* a text with a lowercase option letter, parsed to an uppercase option
C9_Witness ==
    /\ pc = "return"
    /\ answers # <<>>
    /\ answer_text # upper(answer_text)
    /\ \E i \in 1..Len(answer_text) : answer_text[i] = "b"
    /\ \E i \in 1..Len(answers) : answers[i].opt = "B"

(***************************************************************************)
(* The lines of a text, for the line-oriented fallback.                    *)
(***************************************************************************)
\* the text whose lines are looked at
Stripped == upper(strip(answer_text))
Lines    == split(Stripped)

LineHasPair(l) ==
    /\ \E p \in 1..Len(l) : l[p] \in Digit
    /\ \E p \in 1..Len(l) : l[p] \in OptionLetter

\* the first digit run of line l
LineKey(l) ==
    LET i == CHOOSE p \in 1..Len(l) : l[p] \in Digit /\ \A r \in 1..(p - 1) : l[r] \notin Digit
        j == CHOOSE p \in i..Len(l) :
                /\ \A r \in i..p : l[r] \in Digit
                /\ (p = Len(l) \/ l[p + 1] \notin Digit)
    IN  SubSeq(l, i, j)

\* the first letter of A-D of line l
LineOption(l) ==
    l[CHOOSE p \in 1..Len(l) : l[p] \in OptionLetter /\ \A r \in 1..(p - 1) : l[r] \notin OptionLetter]

PairedLines == {n \in 1..Len(Lines) : LineHasPair(Lines[n])}

ModelMap   == model_answers
StudentMap == student_answers

\* the student's map has an entry for q whose option is the model's
Matches(student, model, q) == HasKey(student, q) /\ Get(student, q) = Get(model, q)

ResultKeys == {evaluation_result.results[i].q : i \in 1..Len(evaluation_result.results)}

\* C2: for every QuestionId q of the model map, isCorrect holds exactly when
\* the student map has an entry for q with the model's option; total is the
\* number of keys of the model map; score is the number of keys for which
\* this holds.
C2_CorrectIffEqual ==
    pc = "return" =>
        /\ \A q \in Keys(ModelMap) :
              \E i \in 1..Len(evaluation_result.results) :
                  /\ evaluation_result.results[i].q = q
                  /\ evaluation_result.results[i].correctOption = Get(ModelMap, q)
                  /\ evaluation_result.results[i].isCorrect <=> Matches(StudentMap, ModelMap, q)
        /\ evaluation_result.total = Cardinality(Keys(ModelMap))
        /\ evaluation_result.score =
              Cardinality({q \in Keys(ModelMap) : Matches(StudentMap, ModelMap, q)})

\* a call where one question is answered right and another wrong
C2_Witness ==
    /\ pc = "return"
    /\ evaluation_result.total >= 2
    /\ evaluation_result.score >= 1
    /\ \E q \in Keys(ModelMap) : HasKey(StudentMap, q) /\ Get(StudentMap, q) # Get(ModelMap, q)

\* C3: the per-question results have exactly the keys of the model map, one
\* entry per key, and none for a QuestionId found in the student text only.
C3_ResultKeysAreModelKeys ==
    pc = "return" =>
        /\ ResultKeys = Keys(ModelMap)
        /\ Len(evaluation_result.results) = Cardinality(Keys(ModelMap))
        /\ \A q \in Keys(StudentMap) \ Keys(ModelMap) : q \notin ResultKeys

\* a call where the student answers a question the model does not have
C3_Witness ==
    /\ pc = "return"
    /\ ModelMap # <<>>
    /\ Keys(StudentMap) \ Keys(ModelMap) # {}
    /\ Keys(StudentMap) \cap Keys(ModelMap) # {}

\* two student maps with the same entry, or none, for every key of model
AgreeOn(model, s1, s2) == \A q \in Keys(model) : get(s1, q) = get(s2, q)

\* the student's entries for the keys of model, in the student's order
Restrict(student, model) == SelectSeq(student, LAMBDA e : HasKey(model, e.q))

\* the student's entries for the keys of model, in the model's order: two
\* student maps that agree on the keys of model have the same Canonical
Canonical(student, model) ==
    LET answered == SelectSeq(model, LAMBDA e : HasKey(student, e.q))
    IN  [i \in 1..Len(answered) |->
            [q |-> answered[i].q, opt |-> Get(student, answered[i].q)]]

\* QuestionIds a student may answer beyond those of the texts
OtherIds == {<<"9">>, <<"0", "1">>}

\* student maps that differ from student outside the keys of model: an entry
\* added or changed, an entry dropped, all such entries dropped
Variants(student, model) ==
    {SetItem(student, q, opt) :
        q \in (Keys(student) \cup OtherIds) \ Keys(model), opt \in OptionLetter}
    \cup {SelectSeq(student, LAMBDA e : e.q # q) : q \in Keys(student) \ Keys(model)}
    \cup {Restrict(student, model), Canonical(student, model)}

\* C4: answers to QuestionIds that are not in the model map never affect the
\* outcome.  A student map that agrees with the student's on every key of the
\* model map, whatever it holds for other keys, gives the same score, total,
\* percentage and results.
C4_OtherAnswersIgnored ==
    pc = "return" =>
        \A other \in Variants(StudentMap, ModelMap) :
            /\ AgreeOn(ModelMap, StudentMap, other)
            /\ Evaluate(ModelMap, other) = evaluation_result

\* a call where the student is right on a model question and answers a
\* question the model lacks
C4_Witness ==
    /\ pc = "return"
    /\ evaluation_result.score >= 1
    /\ Keys(StudentMap) \ Keys(ModelMap) # {}
    /\ Restrict(StudentMap, ModelMap) # StudentMap
    /\ Evaluate(ModelMap, Restrict(StudentMap, ModelMap)) = evaluation_result

\* C5: an empty or absent student text, and likewise an empty or absent model
\* text, makes the call raise, through evaluate_mcq and through
\* process_json_input alike: no result is returned for it.
C5_EmptyInputRejected ==
    (pc # "call" /\ (model_answer_text = <<>> \/ student_answer_text = <<>>)) => pc = "raise"

\* C6: a model text that is not empty but holds no pair is no error.  For
\* every student text that is not empty the call returns total 0, score 0,
\* percentage 0 and no per-question result; "hello world" is such a text.
C6_ZeroTotal ==
    /\ parse_answer_text(HelloWorld) = <<>>
    /\ (/\ pc # "call"
        /\ model_answer_text # <<>> /\ student_answer_text # <<>>
        /\ parse_answer_text(model_answer_text) = <<>>) =>
          /\ pc = "return"
          /\ evaluation_result =
                [score |-> 0, total |-> 0, results |-> <<>>, percentage |-> 0]

\* process_json_input returning for the model text "hello world" and a
\* student text that holds pairs
C6_Witness ==
    /\ pc = "return"
    /\ entry = "process_json_input"
    /\ model_answer_text = HelloWorld
    /\ StudentMap # <<>>
    /\ evaluation_result.total = 0

\* C7: a text scored against itself is perfect.  When the text parses to a
\* map that is not empty, score = total = the size of the map, percentage is
\* 100 and every question is marked correct.
C7_SelfScorePerfect ==
    (pc = "return" /\ model_answer_text = student_answer_text /\ ModelMap # <<>>) =>
        /\ evaluation_result.score = evaluation_result.total
        /\ evaluation_result.total = Len(ModelMap)
        /\ evaluation_result.percentage = 100
        /\ Len(evaluation_result.results) = Len(ModelMap)
        /\ \A i \in 1..Len(evaluation_result.results) :
              evaluation_result.results[i].isCorrect

\* a text of two questions scored against itself
C7_Witness ==
    /\ pc = "return"
    /\ model_answer_text = student_answer_text
    /\ Len(ModelMap) >= 2
    /\ evaluation_result.score = Len(ModelMap)

(***************************************************************************)
(* Answers with a letter outside A-D.                                      *)
(***************************************************************************)
\* the uppercase letters
Letter == DOMAIN LowerOf

\* s read from position i on as a list of answers separated by whitespace,
\* an answer being a digit run, whitespace or none, and one letter: whether
\* s is such a list, and its answers with the positions they span
RECURSIVE AnswerItems(_, _)
AnswerItems(s, i) ==
    LET a == RunEnd(s, i, Whitespace)
        j == RunEnd(s, a, Digit)
        k == RunEnd(s, j, Whitespace)
    IN  IF a > Len(s) THEN [ok |-> TRUE, items |-> <<>>]
        ELSE IF j = a \/ k > Len(s) \/ s[k] \notin Letter
                \/ (k < Len(s) /\ s[k + 1] \notin Whitespace)
        THEN [ok |-> FALSE, items |-> <<>>]
        ELSE LET rest == AnswerItems(s, k + 1)
             IN  [ok    |-> rest.ok,
                  items |-> <<[q |-> SubSeq(s, a, j - 1), letter |-> s[k],
                               from |-> a, to |-> k]>> \o rest.items]

StudentList == AnswerItems(upper(student_answer_text), 1)

\* the answers of the student's list to question q
AnswersTo(q) == {n \in 1..Len(StudentList.items) : StudentList.items[n].q = q}

\* the student's text without its answer number n
WithoutAnswer(n) ==
    LET s == upper(student_answer_text)
    IN  SubSeq(s, 1, StudentList.items[n].from - 1)
            \o SubSeq(s, StudentList.items[n].to + 1, Len(s))

\* the questions of the model the student answered once, with a letter
\* outside A-D
RejectedQuestions ==
    {q \in Keys(ModelMap) :
        /\ StudentList.ok
        /\ Cardinality(AnswersTo(q)) = 1
        /\ \A n \in AnswersTo(q) : StudentList.items[n].letter \notin OptionLetter}

\* C11: an answer whose letter is outside A-D is not taken as an option.  In
\* a student text that is a list of answers, a question of the model answered
\* once, with such a letter, is reported with studentOption None (not the
\* empty string, not the letter) and isCorrect false, and the whole result is
\* the one the text gives without that answer.  Model "1A 2B 3C 4D" and
\* student "1 a 2 x 3 c 4 d" give score 3, total 4, percentage 75 and
\* question 2 incorrect with studentOption None.
C11_RejectedLetterIsAbsent ==
    pc = "return" =>
        /\ \A q \in RejectedQuestions :
              /\ ~HasKey(StudentMap, q)
              /\ \E i \in 1..Len(evaluation_result.results) :
                    /\ evaluation_result.results[i] =
                          [q |-> q, correctOption |-> Get(ModelMap, q),
                           studentOption |-> None, isCorrect |-> FALSE]
                    /\ evaluation_result.results[i].studentOption # ""
                    /\ \A n \in AnswersTo(q) :
                          evaluation_result.results[i].studentOption
                              # StudentList.items[n].letter
              /\ \A n \in AnswersTo(q) :
                    evaluation_result = evaluate_mcq(model_answer_text, WithoutAnswer(n))
        /\ (model_answer_text = ModelExample /\ student_answer_text = StudentWithX) =>
              /\ evaluation_result.score = 3
              /\ evaluation_result.total = 4
              /\ evaluation_result.percentage = 75
              /\ evaluation_result.results[2] =
                    [q |-> <<"2">>, correctOption |-> "B",
                     studentOption |-> None, isCorrect |-> FALSE]

\* a call where the student answers one question of the model with the
\* letter x and another question of the model right
C11_Witness ==
    /\ pc = "return"
    /\ RejectedQuestions # {}
    /\ evaluation_result.score >= 1
    /\ \E q \in RejectedQuestions : \E n \in AnswersTo(q) :
          StudentList.items[n].letter = "X"

(***************************************************************************)
(* Repeated QuestionIds (ParserSpec).                                      *)
(***************************************************************************)
\* the pairs of the lines of the text, a line after the other
LinePairs ==
    LET paired == SelectSeq(Lines, LineHasPair)
    IN  [n \in 1..Len(paired) |-> [q |-> LineKey(paired[n]), opt |-> LineOption(paired[n])]]

\* the pairs of the strategy that produced the map, in the order of its scan
ProducingPairs ==
    IF SpacePairs # <<>> THEN SpacePairs
    ELSE IF AdjacentPairs # <<>> THEN AdjacentPairs
    ELSE IF HasNewline(Stripped) THEN LinePairs
    ELSE <<>>

\* the first and the last occurrence of QuestionId q among pairs
FirstOccurrence(pairs, q) ==
    CHOOSE n \in 1..Len(pairs) :
        /\ pairs[n].q = q
        /\ \A m \in 1..(n - 1) : pairs[m].q # q

LastOccurrence(pairs, q) ==
    CHOOSE n \in 1..Len(pairs) :
        /\ pairs[n].q = q
        /\ \A m \in (n + 1)..Len(pairs) : pairs[m].q # q

\* C12: a QuestionId that occurs several times.  The map has one key per
\* QuestionId of the pairs scanned; the option stored for a key is the one of
\* its last occurrence in the scan; the keys iterate in the order of their
\* first occurrences.  "1A 2B 1C" gives {"1": "C", "2": "B"}, in that order.
C12_LastWinsFirstPlaces ==
    pc = "return" =>
        LET pairs == ProducingPairs
        IN  /\ Keys(answers) = {pairs[n].q : n \in 1..Len(pairs)}
            /\ Len(answers) = Cardinality(Keys(answers))
            /\ \A i \in 1..Len(answers) :
                  answers[i].opt = pairs[LastOccurrence(pairs, answers[i].q)].opt
            /\ \A i, j \in 1..Len(answers) :
                  i < j <=> FirstOccurrence(pairs, answers[i].q)
                                < FirstOccurrence(pairs, answers[j].q)
            /\ answer_text = RepeatedKey =>
                  answers = <<[q |-> <<"1">>, opt |-> "C"], [q |-> <<"2">>, opt |-> "B"]>>

\* a text where a QuestionId occurs twice with two options, another
\* QuestionId between its occurrences
C12_Witness ==
    /\ pc = "return"
    /\ Len(answers) >= 2
    /\ \E n, m, k \in 1..Len(ProducingPairs) :
          /\ n < m /\ m < k
          /\ ProducingPairs[n].q = ProducingPairs[k].q
          /\ ProducingPairs[m].q # ProducingPairs[n].q
          /\ ProducingPairs[n].opt # ProducingPairs[k].opt
          /\ answers[1] = ProducingPairs[k]

(***************************************************************************)
(* QuestionIds as text.                                                    *)
(***************************************************************************)
\* the maximal digit runs of s
DigitRuns(s) ==
    {SubSeq(s, i, RunEnd(s, i, Digit) - 1) :
        i \in {p \in 1..Len(s) : s[p] \in Digit /\ (p = 1 \/ s[p - 1] \notin Digit)}}

\* C13: QuestionIds are the matched digit runs, compared as text.  Every key
\* of the two maps is a maximal digit run of its text, leading zeros kept,
\* and the results carry the model's keys unchanged.  A model key that the
\* student map lacks as text is scored incorrect with studentOption None,
\* also when the student answered a key of the same number ("1" for "01")
\* with the model's option.  Model "01 A" and student "1 A " give score 0 of
\* total 1, for the question "01".
C13_KeysAreText ==
    pc = "return" =>
        /\ Keys(ModelMap) \subseteq DigitRuns(model_answer_text)
        /\ Keys(StudentMap) \subseteq DigitRuns(student_answer_text)
        /\ \A i \in 1..Len(evaluation_result.results) :
              evaluation_result.results[i].q = ModelMap[i].q
        /\ \A i \in 1..Len(ModelMap) :
              (\E e \in Entries(StudentMap) :
                  /\ e.q # ModelMap[i].q
                  /\ Decimal(e.q) = Decimal(ModelMap[i].q)
                  /\ ~HasKey(StudentMap, ModelMap[i].q)) =>
                 evaluation_result.results[i] =
                    [q |-> ModelMap[i].q, correctOption |-> ModelMap[i].opt,
                     studentOption |-> None, isCorrect |-> FALSE]
        /\ (model_answer_text = LeadingZero /\ student_answer_text = <<"1", " ", "A", " ">>) =>
              evaluation_result =
                 [score |-> 0, total |-> 1, percentage |-> 0,
                  results |-> <<[q |-> <<"0", "1">>, correctOption |-> "A",
                                 studentOption |-> None, isCorrect |-> FALSE]>>]

\* a call where the model's key is "01" and the student answers "1" with the
\* model's option
C13_Witness ==
    /\ pc = "return"
    /\ HasKey(ModelMap, <<"0", "1">>)
    /\ ~HasKey(StudentMap, <<"0", "1">>)
    /\ HasKey(StudentMap, <<"1">>)
    /\ Get(StudentMap, <<"1">>) = Get(ModelMap, <<"0", "1">>)
    /\ evaluation_result.score = 0

(***************************************************************************)
(* The parser is total (ParserSpec).                                       *)
(***************************************************************************)
\* the text holds a pair one of the three strategies recognises
RecognisablePair ==
    \/ ContainsSpacePair(Uppercased)
    \/ ContainsAdjacentPair(Uppercased)
    \/ (HasNewline(Stripped) /\ PairedLines # {})

\* d maps digit strings that are not empty to letters of A-D
IsAnswerMap(d) ==
    /\ \A i \in 1..Len(d) :
          /\ d[i].q # <<>>
          /\ \A p \in 1..Len(d[i].q) : d[i].q[p] \in Digit
          /\ d[i].opt \in OptionLetter
    /\ \A i, j \in 1..Len(d) : d[i].q = d[j].q => i = j

\* C17: parsing never fails.  Whatever the text (empty, whitespace only,
\* several lines, any characters) the parser has a value for it and the call
\* returns it, there being no other outcome; the map is empty when the text
\* is empty or holds no recognisable pair, and only then; every key is a
\* digit string that is not empty and every value is one of A, B, C, D.
C17_ParsingIsTotal ==
    /\ pc \in {"call", "return"}
    /\ pc = "call" => IsAnswerMap(parse_answer_text(answer_text))
    /\ pc = "return" =>
          /\ answers = parse_answer_text(answer_text)
          /\ answer_text = <<>> => answers = <<>>
          /\ strip(answer_text) = <<>> => answers = <<>>
          /\ answers = <<>> <=> ~RecognisablePair
          /\ IsAnswerMap(answers)

\* a text of several lines with a digit and a letter of A-D and no pair,
\* parsed to the empty map
C17_Witness ==
    /\ pc = "return"
    /\ answers = <<>>
    /\ HasNewline(Stripped)
    /\ \E p \in 1..Len(Uppercased) : Uppercased[p] \in Digit
    /\ \E p \in 1..Len(Uppercased) : Uppercased[p] \in OptionLetter

(***************************************************************************)
(* The two patterns compared (ParserSpec).                                 *)
(***************************************************************************)
\* the positions where a maximal digit run of s starts
RunStarts(s) == {p \in 1..Len(s) : s[p] \in Digit /\ (p = 1 \/ s[p - 1] \notin Digit)}

\* the pairs s holds as a digit run immediately followed by a letter of A-D
AdjacentOccurrences(s) ==
    {[q |-> SubSeq(s, i, RunEnd(s, i, Digit) - 1), opt |-> s[RunEnd(s, i, Digit)]] :
        i \in {p \in RunStarts(s) :
                 /\ RunEnd(s, p, Digit) <= Len(s)
                 /\ s[RunEnd(s, p, Digit)] \in OptionLetter}}

\* the pairs s holds as a digit run, whitespace, and a letter of A-D
SpacedOccurrences(s) ==
    {[q |-> SubSeq(s, i, RunEnd(s, i, Digit) - 1),
      opt |-> s[RunEnd(s, RunEnd(s, i, Digit), Whitespace)]] :
        i \in {p \in RunStarts(s) :
                 LET j == RunEnd(s, p, Digit)
                     k == RunEnd(s, j, Whitespace)
                 IN  k > j /\ k <= Len(s) /\ s[k] \in OptionLetter}}

\* C19 as stated: every pair the space-separated pattern extracts from a text
\* is extracted by the adjacent-pair pattern from the same text.
C19_AdjacentIsSuperset ==
    pc = "return" => Entries(SpacePairs) \subseteq Entries(AdjacentPairs)

\* C19 amended: the two patterns extract pairs of two shapes.  The adjacent
\* pattern extracts exactly the pairs whose letter follows the digit run at
\* once, the space-separated pattern exactly those with whitespace between;
\* a pair extracted by the space-separated pattern is extracted by the
\* adjacent pattern only if the text also holds it in the adjacent shape, and
\* "1 A" gives the adjacent pattern nothing.
C19_PatternsDiffer ==
    pc = "return" =>
        /\ Entries(AdjacentPairs) = AdjacentOccurrences(Uppercased)
        /\ Entries(SpacePairs) = SpacedOccurrences(Uppercased)
        /\ \A e \in Entries(SpacePairs) :
              e \in Entries(AdjacentPairs) <=> e \in AdjacentOccurrences(Uppercased)
        /\ AdjacentOccurrences(Uppercased) = {} => AdjacentPairs = <<>>
        /\ adjacent_pairs_matches(<<"1", " ", "A">>, 1) = <<>>
        /\ space_separated_matches(<<"1", " ", "A">>, 1) = <<[q |-> <<"1">>, opt |-> "A"]>>

\* a text from which the space-separated pattern extracts a pair that the
\* adjacent pattern, which extracts another, does not
C19_Witness ==
    /\ pc = "return"
    /\ AdjacentPairs # <<>>
    /\ \E e \in Entries(SpacePairs) : e \notin Entries(AdjacentPairs)

(***************************************************************************)
(* Percentage and report (SheetSpec, Spec).                                *)
(***************************************************************************)
\* the integer nearest to n / d, for n >= 0 and d > 0, a tie going to the
\* even one
NearestInteger(n, d) ==
    LET quo == n \div d
        rem == n % d
    IN  IF 2 * rem < d THEN quo
        ELSE IF 2 * rem > d THEN quo + 1
        ELSE IF quo % 2 = 0 THEN quo ELSE quo + 1

\* C14: percentage is 0 when total is 0 and otherwise the integer nearest to
\* 100 * score / total, a value that ends in .5 going to the even integer,
\* every time (1 of 8 gives 12, 3 of 8 gives 38); it lies in 0..100.
C14_PercentageIsNearest ==
    pc = "return" =>
        /\ evaluation_result.total = 0 => evaluation_result.percentage = 0
        /\ evaluation_result.total > 0 =>
              evaluation_result.percentage =
                 NearestInteger(100 * evaluation_result.score, evaluation_result.total)
        /\ evaluation_result.percentage \in 0..100
        /\ (evaluation_result.score = 1 /\ evaluation_result.total = 8) =>
              evaluation_result.percentage = 12
        /\ (evaluation_result.score = 3 /\ evaluation_result.total = 8) =>
              evaluation_result.percentage = 38

\* the label of the band percentage p lies in
BandOf(p) ==
    CHOOSE l \in {"Excellent", "Good", "Average", "Poor"} :
        /\ l = "Excellent" <=> p >= 90
        /\ l = "Good" <=> p \in 70..89
        /\ l = "Average" <=> p \in 50..69
        /\ l = "Poor" <=> p < 50

\* C15: the label of the report depends on percentage alone, in bands that
\* include their lower bound: "Excellent" from 90, "Good" for 70..89,
\* "Average" for 50..69, "Poor" below 50.  Every percentage of 0..100 has one
\* label, and the report of a call carries the one of its percentage; the
\* result with total 0 is labelled "Poor".
C15_LabelBands ==
    /\ \A p \in 0..100 :
          /\ performance_label(p) \in {"Excellent", "Good", "Average", "Poor"}
          /\ performance_label(p) = BandOf(p)
    /\ (pc = "return" /\ entry = "process_json_input") =>
          /\ formattedOutput.percentage = evaluation_result.percentage
          /\ formattedOutput.label = BandOf(evaluation_result.percentage)
          /\ evaluation_result.total = 0 => formattedOutput.label = "Poor"

\* a report for 90 percent, labelled "Excellent"
C15_Witness ==
    /\ pc = "return"
    /\ entry = "process_json_input"
    /\ evaluation_result.percentage = 90
    /\ evaluation_result.score < evaluation_result.total
    /\ formattedOutput.label = "Excellent"

\* C16: format_results leaves the EvaluationResult it is given as it was:
\* after the report is made, score, total, percentage and every record are
\* those evaluate_mcq returned.  The report has one question line per entry
\* of results, in the order of the model map, with the model's option and the
\* student's, and shows "No answer" exactly when studentOption is None.
C16_ReportLeavesResult ==
    (pc = "return" /\ entry = "process_json_input") =>
        /\ evaluation_result = Evaluate(ModelMap, StudentMap)
        /\ format_results(evaluation_result).evaluation_result = evaluation_result
        /\ formattedOutput = format_results(evaluation_result).output
        /\ formattedOutput.score = evaluation_result.score
        /\ formattedOutput.total = evaluation_result.total
        /\ formattedOutput.percentage = evaluation_result.percentage
        /\ Len(formattedOutput.questions) = Len(evaluation_result.results)
        /\ Len(formattedOutput.questions) = Len(ModelMap)
        /\ \A i \in 1..Len(formattedOutput.questions) :
              /\ formattedOutput.questions[i].q = ModelMap[i].q
              /\ formattedOutput.questions[i].q = evaluation_result.results[i].q
              /\ formattedOutput.questions[i].model = evaluation_result.results[i].correctOption
              /\ formattedOutput.questions[i].student = "No answer"
                    <=> evaluation_result.results[i].studentOption = None
              /\ evaluation_result.results[i].studentOption # None =>
                    formattedOutput.questions[i].student
                        = evaluation_result.results[i].studentOption

\* a report of two questions or more, one answered and one not
C16_Witness ==
    /\ pc = "return"
    /\ entry = "process_json_input"
    /\ \E i, j \in 1..Len(evaluation_result.results) :
          /\ i < j
          /\ evaluation_result.results[i].studentOption = None
          /\ evaluation_result.results[j].studentOption \in OptionLetter
          /\ formattedOutput.questions[i].student = "No answer"

(***************************************************************************)
(* The three implementations (CompareSpec).                                *)
(***************************************************************************)
\* d maps digit strings to letters of A-D
IsOptionMap(d) ==
    \A i \in 1..Len(d) : isdigit(d[i].q) /\ IsOption(d[i].opt)

\* C18: parse_answer_text of exact_mcq_comparison returns a map of question
\* numbers to options.  Whatever the text, every key is a digit string and
\* every value one of A, B, C, D; the model text "hello world", which holds
\* no pair, gives the empty map and evaluate_mcq returns total 0 for it.
C18_ExactMapsQuestionsToOptions ==
    exact_result # NoScore =>
        /\ IsOptionMap(exact_model_answers)
        /\ IsOptionMap(exact_student_answers)
        /\ model_answer_text = HelloWorld =>
              /\ exact_model_answers = <<>>
              /\ exact_result.total = 0

\* s has no newline and is made of tokens separated by whitespace, a digit
\* string and one letter of the set letters in turn
AlternatingTokens(s, letters) ==
    LET parts == split_whitespace(upper(s))
    IN  /\ ~HasNewline(s)
        /\ Len(parts) % 2 = 0
        /\ \A i \in 1..Len(parts) :
              IF i % 2 = 1 THEN isdigit(parts[i])
              ELSE Len(parts[i]) = 1 /\ parts[i][1] \in letters

\* C20: the three evaluate_mcq agree on single-line space-separated input.
\* When the model text and the student text hold no newline and are tokens
\* separated by whitespace, a digit string and one letter in turn (the
\* model's letters in A-D, any case), the three return the same score and the
\* same total, with 0 <= score <= total in each.
C20_ImplementationsAgree ==
    (/\ pc = "return" /\ exact_result # NoScore /\ comparison_result # NoScore
     /\ AlternatingTokens(model_answer_text, OptionLetter)
     /\ AlternatingTokens(student_answer_text, Letter)) =>
        /\ exact_result.score = evaluation_result.score
        /\ comparison_result.score = evaluation_result.score
        /\ exact_result.total = evaluation_result.total
        /\ comparison_result.total = evaluation_result.total
        /\ evaluation_result.score \in 0..evaluation_result.total
        /\ exact_result.score \in 0..exact_result.total
        /\ comparison_result.score \in 0..comparison_result.total

=============================================================================
